---- MODULE Spec2Model ----
(***************************************************************************)
(* Smart Farmer backend: the wallet ledger handlers of the three server    *)
(* variants found in the repository, run against one document store.       *)
(*                                                                         *)
(*   "sdk"   src/unnamed/part_000 lines 1-244   (velv-js SDK, webhook)      *)
(*   "raw"   src/unnamed/part_000 lines 245-483 (raw HTTP, webhook)         *)
(*   "index" src/index.js                       (raw HTTP, verify)          *)
(*                                                                         *)
(* Every `await` of a handler is one step of its process; the code between *)
(* two awaits runs without interruption.  Any awaited store or gateway     *)
(* call may throw, which sends the handler to its catch block (HTTP 500).  *)
(*                                                                         *)
(* Money is counted in thousandths of the major currency unit, so that     *)
(* the conversions of the code (amount * 100 rounded, amount / 100) are    *)
(* exact integer operations.  Floating point rounding is not modelled.     *)
(***************************************************************************)
EXTENDS Integers, Sequences, FiniteSets, TLC

\* ------------------------------------------------------------------ bounds
\* number of requests the server handles in one behaviour
MaxReqs == 3
\* the clock (in days) stops here
MaxClock == 31

\* ------------------------------------------------------------ fixed data
Procs == {1, 2}
Variants == {"sdk", "raw", "index"}
Users == {"u1", "u2"}
\* the user document whose email field equals e (a user's id is its e-mail here)
UserOfEmail(e) == IF e \in Users THEN {e} ELSE {}

\* e-mail addresses a deposit is initiated for
InitEmails == {"u1"}
\* deposit amounts a client asks for, in thousandths of the major unit
DepositAmounts == {5000000, 1004}
\* amounts a gateway event reports, in minor units (kobo)
KoboAmounts == {500000, 100}

\* withdrawal requests present in the store (written by the client app)
\* "w3" belongs to a user whose document no longer exists
WIds == {"w1", "w2", "w3"}
WithdrawalData ==
  [w \in WIds |->
     CASE w = "w1" -> [userId |-> "u1", amount |-> 1000000]
       [] w = "w2" -> [userId |-> "u1", amount |-> 500000]
       [] OTHER    -> [userId |-> "gone", amount |-> 100000]]

\* investments and projects present in the store (written by the client app)
IIds == <<"i1", "i2", "i3">>
InvSet == {IIds[k] : k \in 1..Len(IIds)}
InvestmentData ==
  [i \in InvSet |->
     CASE i = "i1" -> [userId |-> "u1", projectId |-> "p1", amount |-> 10000000, createdAt |-> 0]
       [] i = "i2" -> [userId |-> "u1", projectId |-> "p2", amount |-> 200000,   createdAt |-> 1]
       [] OTHER    -> [userId |-> "u2", projectId |-> "p9", amount |-> 300000,   createdAt |-> 0]]
ProjectIds == {"p1", "p2"}
ProjectData ==
  [p \in ProjectIds |->
     IF p = "p1" THEN [durationDays |-> 30, returnPercentage |-> 10]
                 ELSE [durationDays |-> 30, returnPercentage |-> 25]]

\* ----------------------------------------------------------------- state
VARIABLES
  variant,        \* which server variant is deployed
  clock,          \* current day
  walletBalance,  \* users/{uid}.walletBalance
  transactions,   \* the transactions collection, in insertion order
  withdrawals,    \* withdrawals/{id}.status
  investments,    \* investments/{id}.status
  pc,             \* per request slot: position of its handler
  loc,            \* per request slot: the handler's local variables
  reqs,           \* number of requests started
  gateway,        \* the payment gateway: minor-unit amount to charge per reference
  credits,        \* history: the deposit credits applied per reference, in order
  debits,         \* history: wallet debits applied per withdrawal request
  payouts         \* history: payout credits applied per investment

vars == <<variant, clock, walletBalance, transactions, withdrawals, investments,
          pc, loc, reqs, gateway, credits, debits, payouts>>

store == <<walletBalance, transactions, withdrawals, investments>>
hist == <<credits, debits, payouts>>

\* reference ids: 1..MaxReqs can be generated, 0 stands for "absent"
Refs == 1..MaxReqs

\* a slot that has not served a request yet
NoLoc == [kind |-> "none", res |-> 0]

Init ==
  /\ variant \in Variants
  /\ clock = 30
  /\ walletBalance = [u \in Users |-> IF u = "u1" THEN 1000000 ELSE 0]
  /\ transactions = <<>>
  /\ withdrawals = [w \in WIds |-> "pending"]
  /\ investments = [i \in InvSet |-> "active"]
  /\ pc = [p \in Procs |-> "idle"]
  /\ loc = [p \in Procs |-> NoLoc]
  /\ reqs = 0
  /\ gateway = [r \in Refs |-> 0]
  /\ credits = [r \in Refs |-> <<>>]
  /\ debits = [w \in WIds |-> 0]
  /\ payouts = [i \in InvSet |-> 0]

\* ------------------------------------------------------- common machinery
\* a slot can take a new request when no handler is running in it
Free(p) == pc[p] \in {"idle", "done"}

\* slots are interchangeable: a request takes the lowest free one
Begin(p) ==
  /\ Free(p)
  /\ \A q \in Procs : q < p => ~Free(q)
  /\ reqs < MaxReqs
  /\ reqs' = reqs + 1

\* what stays visible of a request once it is answered: the request and the response
Answered(l, code) ==
  IF l.kind = "sweep"
  THEN [kind |-> l.kind, res |-> code, now |-> l.now,
        processedCount |-> l.processedCount, rerun |-> l.rerun]
  ELSE [kind |-> l.kind, res |-> code]

\* the handler sends its response
Respond(p, l, code) ==
  /\ pc' = [pc EXCEPT ![p] = "done"]
  /\ loc' = [loc EXCEPT ![p] = Answered(l, code)]

Goto(p, l, label) ==
  /\ pc' = [pc EXCEPT ![p] = label]
  /\ loc' = [loc EXCEPT ![p] = l]

\* FieldValue.increment(d) on users/{u}.walletBalance
Increment(bal, u, d) == [bal EXCEPT ![u] = @ + d]

\* history of credits: handler l has credited l.amount to l.userId for l.ref
Credited(c, l) ==
  IF l.ref \in Refs
  THEN [c EXCEPT ![l.ref] = Append(@, [userId |-> l.userId, amount |-> l.amount])]
  ELSE c

\* minor units sent to the gateway: Math.round(amount * 100)
ToKobo(amount) == (amount + 5) \div 10
\* major-unit amount of a gateway event: amount / 100
FromKobo(kobo) == kobo * 10

\* --------------------------------------------------------------- documents
\* a transaction document; fields a writer does not set are "none" / 0
Txn(referenceId, email, userId, type, amount, status, detailsRef) ==
  [referenceId |-> referenceId, email |-> email, userId |-> userId, type |-> type,
   amount |-> amount, status |-> status, detailsRef |-> detailsRef]

\* transactions.where('referenceId', '==', r): indexes of the matching documents
TxnQuery(r) == {k \in 1..Len(transactions) : transactions[k].referenceId = r}
\* docs[0] of a non-empty query result
FirstDoc(S) == CHOOSE k \in S : \A j \in S : k <= j

\* `SF-${Date.now()}-${uuidv4()}`: a reference id no earlier call produced
FreshRef == reqs + 1

\* ------------------------------------- POST /payment/initialize (SDK variant)
\* mutant: the Pending transaction is stored before the gateway is called
InitSdkStartAddsFirst(p, email, amount) ==
  /\ variant = "sdk"
  /\ Begin(p)
  /\ transactions' = Append(transactions,
        Txn(FreshRef, email, "none", "none", amount, "Pending", 0))
  /\ Goto(p, [kind |-> "initSdk", ref |-> FreshRef, email |-> email, amount |-> amount],
          "initSdkGateway")
  /\ UNCHANGED <<variant, gateway, clock, walletBalance, withdrawals, investments, hist>>

InitSdkStart(p, email, amount) ==
  /\ variant = "sdk"
  /\ Begin(p)
  /\ Goto(p, [kind |-> "initSdk", ref |-> FreshRef, email |-> email, amount |-> amount],
          "initSdkGateway")
  /\ UNCHANGED <<variant, gateway, clock, store, hist>>

\* velv.initiatePayment({referenceId, body: {amount: Math.round(amount * 100), ...}})
InitSdkGateway(p) ==
  /\ pc[p] = "initSdkGateway"
  /\ gateway' = [gateway EXCEPT ![loc[p].ref] = ToKobo(loc[p].amount)]
  /\ Goto(p, loc[p], "initSdkAdd")
  /\ UNCHANGED <<variant, clock, store, hist, reqs>>

\* db.collection('transactions').add({email, referenceId, amount, status: 'Pending'})
InitSdkAdd(p) ==
  /\ pc[p] = "initSdkAdd"
  /\ transactions' = Append(transactions,
        Txn(loc[p].ref, loc[p].email, "none", "none", loc[p].amount, "Pending", 0))
  /\ Respond(p, loc[p], 200)
  /\ UNCHANGED <<variant, gateway, clock, walletBalance, withdrawals, investments, hist, reqs>>

\* ---------------------------------------- POST /payment/webhook (SDK variant)
WebhookEvents == {"charge.success", "charge.failed"}
WebhookStatuses == {"success", "failed", "pending"}
\* reference ids a gateway event can carry (0: no reference in the payload);
\* 1 is the reference of a deposit initiated by the first request, if any
EventRefs == {0, 1}
EventEmails == {"u1", "nobody", "none"}

\* the status the SDK handler will write to the transaction
SdkNewStatus(event, status) ==
  IF event = "charge.success" /\ status = "success" THEN "Completed"
  ELSE IF status = "failed" THEN "Failed"
  ELSE "Pending"

WebhookSdkStart(p, ref, email, kobo, event, status) ==
  /\ variant = "sdk"
  /\ Begin(p)
  /\ LET l == [kind |-> "whSdk", ref |-> ref, email |-> email,
               amount |-> FromKobo(kobo), newStatus |-> SdkNewStatus(event, status),
               userId |-> "none", txn |-> 0]
     IN  IF ref = 0 \/ email = "none"
         THEN Respond(p, l, 400)
         ELSE IF l.newStatus = "Completed"
              THEN Goto(p, l, "whSdkUserQuery")
              ELSE Goto(p, l, "whSdkTxnQuery")
  /\ UNCHANGED <<variant, gateway, clock, store, hist>>

\* db.collection('users').where('email', '==', email).get()
WebhookSdkUserQuery(p) ==
  /\ pc[p] = "whSdkUserQuery"
  /\ LET found == UserOfEmail(loc[p].email)
     IN  IF found # {}
         THEN Goto(p, [loc[p] EXCEPT !.userId = CHOOSE u \in found : TRUE], "whSdkCredit")
         ELSE Goto(p, loc[p], "whSdkTxnQuery")
  /\ UNCHANGED <<variant, gateway, clock, store, hist, reqs>>

\* users/{id}.update({walletBalance: increment(amount)})
WebhookSdkCredit(p) ==
  /\ pc[p] = "whSdkCredit"
  /\ walletBalance' = Increment(walletBalance, loc[p].userId, loc[p].amount)
  /\ credits' = Credited(credits, loc[p])
  /\ Goto(p, loc[p], "whSdkTxnQuery")
  /\ UNCHANGED <<variant, gateway, clock, transactions, withdrawals, investments, debits,
                 payouts, reqs>>

\* db.collection('transactions').where('referenceId', '==', referenceId).get()
WebhookSdkTxnQuery(p) ==
  /\ pc[p] = "whSdkTxnQuery"
  /\ LET found == TxnQuery(loc[p].ref)
     IN  IF found # {}
         THEN Goto(p, [loc[p] EXCEPT !.txn = FirstDoc(found)], "whSdkTxnUpdate")
         ELSE Respond(p, loc[p], 200)
  /\ UNCHANGED <<variant, gateway, clock, store, hist, reqs>>

\* transactions/{txnDocId}.update({status: newStatus, ...})
WebhookSdkTxnUpdate(p) ==
  /\ pc[p] = "whSdkTxnUpdate"
  /\ transactions' = [transactions EXCEPT ![loc[p].txn].status = loc[p].newStatus]
  /\ Respond(p, loc[p], 200)
  /\ UNCHANGED <<variant, gateway, clock, walletBalance, withdrawals, investments, hist, reqs>>

\* ------------------------- POST /payment/initialize (raw-HTTP variants)
\* the payload carries Math.round(amount * 100) as its amount
InitRawStart(p, email, amount) ==
  /\ variant \in {"raw", "index"}
  /\ Begin(p)
  /\ Goto(p, [kind |-> "initRaw", email |-> email, amount |-> amount,
               kobo |-> ToKobo(amount)], "initRawGateway")
  /\ UNCHANGED <<variant, gateway, clock, store, hist>>

\* axios.post(.../payment/cash-craft/initiate, payload); the handler writes nothing
InitRawGateway(p) ==
  /\ pc[p] = "initRawGateway"
  /\ Respond(p, loc[p], 200)
  /\ UNCHANGED <<variant, gateway, clock, store, hist, reqs>>

\* ------------------------------------ POST /payment/webhook (raw-HTTP variant)
RawIsSuccess(event, status) == event = "charge.success" /\ status = "success"

WebhookRawStart(p, ref, email, kobo, event, status) ==
  /\ variant = "raw"
  /\ Begin(p)
  /\ LET l == [kind |-> "whRaw", ref |-> ref, email |-> email,
               amount |-> FromKobo(kobo), userId |-> "none"]
     IN  IF RawIsSuccess(event, status)
         THEN Goto(p, l, "whRawUserQuery")
         ELSE Respond(p, l, 200)
  /\ UNCHANGED <<variant, gateway, clock, store, hist>>

\* db.collection('users').where('email', '==', customer.email).get()
WebhookRawUserQuery(p) ==
  /\ pc[p] = "whRawUserQuery"
  /\ LET found == UserOfEmail(loc[p].email)
     IN  IF found = {}
         THEN Respond(p, loc[p], 404)
         ELSE Goto(p, [loc[p] EXCEPT !.userId = CHOOSE u \in found : TRUE], "whRawCredit")
  /\ UNCHANGED <<variant, gateway, clock, store, hist, reqs>>

\* users/{userId}.update({walletBalance: increment(amountInMainUnit)})
WebhookRawCredit(p) ==
  /\ pc[p] = "whRawCredit"
  /\ walletBalance' = Increment(walletBalance, loc[p].userId, loc[p].amount)
  /\ credits' = Credited(credits, loc[p])
  /\ Goto(p, loc[p], "whRawAdd")
  /\ UNCHANGED <<variant, gateway, clock, transactions, withdrawals, investments, debits,
                 payouts, reqs>>

\* db.collection('transactions').add({userId, type: 'Deposit', ..., status: 'Completed'})
WebhookRawAdd(p) ==
  /\ pc[p] = "whRawAdd"
  /\ transactions' = Append(transactions,
        Txn(0, "none", loc[p].userId, "Deposit", loc[p].amount, "Completed", loc[p].ref))
  /\ Respond(p, loc[p], 200)
  /\ UNCHANGED <<variant, gateway, clock, walletBalance, withdrawals, investments, hist, reqs>>

\* ------------------------------------------- POST /admin/withdrawals/update
UpdateIds == WIds \cup {"", "w9"}
UpdateStatuses == {"approved", "rejected", ""}

\* mutant: the check also refuses a balance equal to the amount
InsufficientOffByOne(balance, amount) == balance <= amount
\* userDoc.data().walletBalance < amount
Insufficient(balance, amount) == balance < amount

WithdrawalStart(p, id, status) ==
  /\ variant \in {"raw", "index"}
  /\ Begin(p)
  /\ LET l == [kind |-> "wd", wid |-> id, status |-> status, was |-> "none",
               amount |-> 0, userId |-> "none", balance |-> 0]
     IN  IF id = "" \/ status = ""
         THEN Respond(p, l, 400)
         ELSE Goto(p, l, "wdGet")
  /\ UNCHANGED <<variant, gateway, clock, store, hist>>

\* mutant: every update takes the approval branch, whatever its status
WithdrawalGetApprovesAll(p) ==
  /\ pc[p] = "wdGet"
  /\ LET id == loc[p].wid
     IN  IF id \notin WIds
         THEN Respond(p, loc[p], 404)
         ELSE Goto(p, [loc[p] EXCEPT !.was = withdrawals[id],
                                     !.amount = WithdrawalData[id].amount,
                                     !.userId = WithdrawalData[id].userId], "wdUserGet")
  /\ UNCHANGED <<variant, gateway, clock, store, hist, reqs>>

\* withdrawalRef.get()
WithdrawalGet(p) ==
  /\ pc[p] = "wdGet"
  /\ LET id == loc[p].wid
     IN  IF id \notin WIds
         THEN Respond(p, loc[p], 404)
         ELSE LET l == [loc[p] EXCEPT !.was = withdrawals[id],
                                      !.amount = WithdrawalData[id].amount,
                                      !.userId = WithdrawalData[id].userId]
              IN  IF loc[p].status = "approved"
                  THEN Goto(p, l, "wdUserGet")
                  ELSE Goto(p, l, "wdSetStatus")
  /\ UNCHANGED <<variant, gateway, clock, store, hist, reqs>>

\* mutant: a request whose user is missing is marked failed before the 404
WithdrawalUserGetFailsRequest(p) ==
  /\ pc[p] = "wdUserGet"
  /\ LET u == loc[p].userId
     IN  IF u \notin Users
         THEN /\ withdrawals' = [withdrawals EXCEPT ![loc[p].wid] = "failed"]
              /\ Respond(p, loc[p], 404)
         ELSE /\ withdrawals' = withdrawals
              /\ LET l == [loc[p] EXCEPT !.balance = walletBalance[u]]
                 IN  IF Insufficient(walletBalance[u], loc[p].amount)
                     THEN Goto(p, l, "wdMarkFailed")
                     ELSE Goto(p, l, "wdDebit")
  /\ UNCHANGED <<variant, gateway, clock, walletBalance, transactions, investments, hist, reqs>>

\* userRef.get(), then the sufficiency check on the balance just read
WithdrawalUserGet(p) ==
  /\ pc[p] = "wdUserGet"
  /\ LET u == loc[p].userId
     IN  IF u \notin Users
         THEN Respond(p, loc[p], 404)
         ELSE LET l == [loc[p] EXCEPT !.balance = walletBalance[u]]
              IN  IF Insufficient(walletBalance[u], loc[p].amount)
                  THEN Goto(p, l, "wdMarkFailed")
                  ELSE Goto(p, l, "wdDebit")
  /\ UNCHANGED <<variant, gateway, clock, store, hist, reqs>>

\* withdrawalRef.update({status: 'failed', notes: ...}); 400
WithdrawalMarkFailed(p) ==
  /\ pc[p] = "wdMarkFailed"
  /\ withdrawals' = [withdrawals EXCEPT ![loc[p].wid] = "failed"]
  /\ Respond(p, loc[p], 400)
  /\ UNCHANGED <<variant, gateway, clock, walletBalance, transactions, investments, hist, reqs>>

\* userRef.update({walletBalance: increment(-amount)})
WithdrawalDebit(p) ==
  /\ pc[p] = "wdDebit"
  /\ walletBalance' = Increment(walletBalance, loc[p].userId, 0 - loc[p].amount)
  /\ debits' = [debits EXCEPT ![loc[p].wid] = @ + 1]
  /\ Goto(p, loc[p], "wdMarkApproved")
  /\ UNCHANGED <<variant, gateway, clock, transactions, withdrawals, investments, credits,
                 payouts, reqs>>

\* withdrawalRef.update({status: 'approved', processedAt: ...})
WithdrawalMarkApproved(p) ==
  /\ pc[p] = "wdMarkApproved"
  /\ withdrawals' = [withdrawals EXCEPT ![loc[p].wid] = "approved"]
  /\ Goto(p, loc[p], "wdAddTxn")
  /\ UNCHANGED <<variant, gateway, clock, walletBalance, transactions, investments, hist, reqs>>

\* db.collection('transactions').add({userId, type: 'Withdrawal', amount, status: 'Completed'})
WithdrawalAddTxn(p) ==
  /\ pc[p] = "wdAddTxn"
  /\ transactions' = Append(transactions,
        Txn(0, "none", loc[p].userId, "Withdrawal", loc[p].amount, "Completed", 0))
  /\ Respond(p, loc[p], 200)
  /\ UNCHANGED <<variant, gateway, clock, walletBalance, withdrawals, investments, hist, reqs>>

\* withdrawalRef.update({status: status})
WithdrawalSetStatus(p) ==
  /\ pc[p] = "wdSetStatus"
  /\ withdrawals' = [withdrawals EXCEPT ![loc[p].wid] = loc[p].status]
  /\ Respond(p, loc[p], 200)
  /\ UNCHANGED <<variant, gateway, clock, walletBalance, transactions, investments, hist, reqs>>

\* ---------------------------------------------- POST /system/process-payouts
\* mutant: the query forgets the status filter
ActiveQueryUnfiltered(inv) == IIds
\* investmentsRef.where('status', '==', 'active').get(): the matching ids, in id order
ActiveQuery(inv) == SelectSeq(IIds, LAMBDA i : inv[i] = "active")
\* projectDoc.exists
ProjectExists(pid) == pid \in ProjectIds
\* maturityDate.setDate(maturityDate.getDate() + durationDays)
MaturityDate(createdAt, durationDays) == createdAt + durationDays
\* mutant: an investment counts as matured one day early
MaturedDayEarly(now, maturityDate) == now + 1 >= maturityDate
\* now >= maturityDate
Matured(now, maturityDate) == now >= maturityDate
\* mutant: the payout is the profit alone
PayoutProfitOnly(amount, returnPercentage) == (amount * returnPercentage) \div 100
\* investment.amount + investment.amount * (project.returnPercentage / 100)
Payout(amount, returnPercentage) == amount + (amount * returnPercentage) \div 100
\* payoutAmount of an investment whose project exists
PayoutOf(i) ==
  Payout(InvestmentData[i].amount, ProjectData[InvestmentData[i].projectId].returnPercentage)

\* mutant: a batch keeps one update per user document, the last one added
BatchCreditLastOnly(batch, u) ==
  LET mine == {k \in 1..Len(batch) : InvestmentData[batch[k]].userId = u}
  IN  IF mine = {} THEN 0
      ELSE PayoutOf(batch[CHOOSE k \in mine : \A j \in mine : j <= k])

\* the sum of the walletBalance increments a batch holds for user u
RECURSIVE BatchCredit(_, _)
BatchCredit(batch, u) ==
  IF batch = <<>> THEN 0
  ELSE (IF InvestmentData[Head(batch)].userId = u THEN PayoutOf(Head(batch)) ELSE 0)
       + BatchCredit(Tail(batch), u)
\* the investments a batch marks completed
BatchSet(batch) == {batch[k] : k \in 1..Len(batch)}
\* how often a batch writes to investment i
BatchCount(batch, i) == Cardinality({k \in 1..Len(batch) : batch[k] = i})

\* the request answered last in this slot was a sweep that succeeded at time t
SweptAt(l, t) == l.kind = "sweep" /\ l.res = 200 /\ l.now = t

\* const now = new Date()
SweepStart(p) ==
  /\ Begin(p)
  /\ Goto(p, [kind |-> "sweep", now |-> clock, rerun |-> SweptAt(loc[p], clock),
               snap |-> <<>>, batch |-> <<>>, processedCount |-> 0], "swQuery")
  /\ UNCHANGED <<variant, gateway, clock, store, hist>>

\* the status query; an empty snapshot answers at once
SweepQuery(p) ==
  /\ pc[p] = "swQuery"
  /\ LET snap == ActiveQuery(investments)
     IN  IF snap = <<>>
         THEN Respond(p, loc[p], 200)
         ELSE Goto(p, [loc[p] EXCEPT !.snap = snap], "swLoop")
  /\ UNCHANGED <<variant, gateway, clock, store, hist, reqs>>

\* mutant: the loop has no `continue` for a missing project and takes such an
\* investment as due
RECURSIVE LoopBatchNoSkip(_, _)
LoopBatchNoSkip(snap, now) ==
  IF snap = <<>> THEN <<>>
  ELSE LET i == Head(snap)
           inv == InvestmentData[i]
           pay == \/ ~ProjectExists(inv.projectId)
                  \/ Matured(now, MaturityDate(inv.createdAt,
                                               ProjectData[inv.projectId].durationDays))
       IN  (IF pay THEN <<i>> ELSE <<>>) \o LoopBatchNoSkip(Tail(snap), now)

\* the investments of a snapshot that the loop adds to the batch: project found
\* and matured at `now`
RECURSIVE LoopBatch(_, _)
LoopBatch(snap, now) ==
  IF snap = <<>> THEN <<>>
  ELSE LET i == Head(snap)
           inv == InvestmentData[i]
           pay == /\ ProjectExists(inv.projectId)
                  /\ Matured(now, MaturityDate(inv.createdAt,
                                               ProjectData[inv.projectId].durationDays))
       IN  (IF pay THEN <<i>> ELSE <<>>) \o LoopBatch(Tail(snap), now)

\* the for loop over the snapshot: per document a project read and the maturity
\* test.  No handler writes a project document, so the passes are taken together.
SweepLoop(p) ==
  /\ pc[p] = "swLoop"
  /\ LET b == LoopBatch(loc[p].snap, loc[p].now)
     IN  Goto(p, [loc[p] EXCEPT !.batch = b, !.processedCount = Len(b)], "swCommit")
  /\ UNCHANGED <<variant, gateway, clock, store, hist, reqs>>

\* mutant: the commit fails half way, with the wallet updates applied and the
\* status updates lost
SweepCommitTorn(p) ==
  /\ pc[p] = "swCommit"
  /\ LET b == loc[p].batch
     IN  /\ walletBalance' = [u \in Users |-> walletBalance[u] + BatchCredit(b, u)]
         /\ payouts' = [i \in InvSet |-> payouts[i] + BatchCount(b, i)]
  /\ Respond(p, loc[p], 500)
  /\ UNCHANGED <<variant, gateway, clock, transactions, withdrawals, investments, credits,
                 debits, reqs>>

\* batch.commit(): every write of the batch is applied, atomically
SweepCommit(p) ==
  /\ pc[p] = "swCommit"
  /\ LET b == loc[p].batch
     IN  /\ walletBalance' = [u \in Users |-> walletBalance[u] + BatchCredit(b, u)]
         /\ investments' = [i \in InvSet |-> IF i \in BatchSet(b) THEN "completed"
                                             ELSE investments[i]]
         /\ payouts' = [i \in InvSet |-> payouts[i] + BatchCount(b, i)]
  /\ Respond(p, loc[p], 200)
  /\ UNCHANGED <<variant, gateway, clock, transactions, withdrawals, credits, debits, reqs>>

\* ------------------------------------------ GET /payment/verify/:reference
VerifyStart(p, ref) ==
  /\ variant = "index"
  /\ Begin(p)
  /\ Goto(p, [kind |-> "verify", ref |-> ref, email |-> "none", amount |-> 0,
               userId |-> "none"], "verifyGateway")
  /\ UNCHANGED <<variant, gateway, clock, store, hist>>

\* axios.get(.../payment/cash-craft/resolve?txId=reference): the gateway's answer
VerifyGateway(p, status, kobo, email) ==
  /\ pc[p] = "verifyGateway"
  /\ LET l == [loc[p] EXCEPT !.email = email, !.amount = FromKobo(kobo)]
     IN  IF status \in {"success", "completed"}
         THEN IF email = "none"
              THEN Respond(p, l, 500)
              ELSE Goto(p, l, "verifyUserQuery")
         ELSE Respond(p, l, 400)
  /\ UNCHANGED <<variant, gateway, clock, store, hist, reqs>>

\* db.collection('users').where('email', '==', userEmail).get()
VerifyUserQuery(p) ==
  /\ pc[p] = "verifyUserQuery"
  /\ LET found == UserOfEmail(loc[p].email)
     IN  IF found = {}
         THEN Respond(p, loc[p], 404)
         ELSE Goto(p, [loc[p] EXCEPT !.userId = CHOOSE u \in found : TRUE], "verifyCredit")
  /\ UNCHANGED <<variant, gateway, clock, store, hist, reqs>>

\* users/{userId}.update({walletBalance: increment(amountInMainUnit)})
VerifyCredit(p) ==
  /\ pc[p] = "verifyCredit"
  /\ walletBalance' = Increment(walletBalance, loc[p].userId, loc[p].amount)
  /\ credits' = Credited(credits, loc[p])
  /\ Goto(p, loc[p], "verifyAdd")
  /\ UNCHANGED <<variant, gateway, clock, transactions, withdrawals, investments, debits,
                 payouts, reqs>>

\* db.collection('transactions').add({userId, type: 'Deposit', ..., status: 'Completed'})
VerifyAdd(p) ==
  /\ pc[p] = "verifyAdd"
  /\ transactions' = Append(transactions,
        Txn(0, "none", loc[p].userId, "Deposit", loc[p].amount, "Completed", loc[p].ref))
  /\ Respond(p, loc[p], 200)
  /\ UNCHANGED <<variant, gateway, clock, walletBalance, withdrawals, investments, hist, reqs>>

\* ------------------------------------------------------------ environment
\* positions at which a handler awaits the gateway / the store
GatewayAwaits == {"initSdkGateway", "initRawGateway", "verifyGateway"}
StoreAwaits ==
  {"initSdkAdd", "whSdkUserQuery", "whSdkCredit", "whSdkTxnQuery", "whSdkTxnUpdate",
   "whRawUserQuery", "whRawCredit", "whRawAdd",
   "wdGet", "wdUserGet", "wdMarkFailed", "wdDebit", "wdMarkApproved", "wdAddTxn",
   "wdSetStatus", "swQuery", "swLoop", "swCommit",
   "verifyUserQuery", "verifyCredit", "verifyAdd"}

\* the awaited gateway call rejects: the catch block answers 500
GatewayFail(p) ==
  /\ pc[p] \in GatewayAwaits
  /\ Respond(p, loc[p], 500)
  /\ UNCHANGED <<variant, gateway, clock, store, hist, reqs>>

\* the awaited store call rejects with nothing written: the catch block answers 500
StoreFail(p) ==
  /\ pc[p] \in StoreAwaits
  /\ Respond(p, loc[p], 500)
  /\ UNCHANGED <<variant, gateway, clock, store, hist, reqs>>

\* a day passes
Tick ==
  /\ clock < MaxClock
  /\ clock' = clock + 1
  /\ UNCHANGED <<variant, gateway, store, pc, loc, reqs, hist>>

\* ---------------------------------------------------------- specifications
Step(p) ==
  \/ \E e \in InitEmails, a \in DepositAmounts : InitSdkStart(p, e, a)
  \/ InitSdkGateway(p)
  \/ InitSdkAdd(p)
  \/ \E r \in EventRefs, e \in EventEmails, k \in KoboAmounts,
        ev \in WebhookEvents, st \in WebhookStatuses : WebhookSdkStart(p, r, e, k, ev, st)
  \/ WebhookSdkUserQuery(p)
  \/ WebhookSdkCredit(p)
  \/ WebhookSdkTxnQuery(p)
  \/ WebhookSdkTxnUpdate(p)
  \/ \E e \in InitEmails, a \in DepositAmounts : InitRawStart(p, e, a)
  \/ InitRawGateway(p)
  \/ \E r \in EventRefs, e \in EventEmails \ {"none"}, k \in KoboAmounts,
        ev \in WebhookEvents, st \in WebhookStatuses : WebhookRawStart(p, r, e, k, ev, st)
  \/ WebhookRawUserQuery(p)
  \/ WebhookRawCredit(p)
  \/ WebhookRawAdd(p)
  \/ \E id \in UpdateIds, st \in UpdateStatuses : WithdrawalStart(p, id, st)
  \/ WithdrawalGet(p)
  \/ WithdrawalUserGet(p)
  \/ WithdrawalMarkFailed(p)
  \/ WithdrawalDebit(p)
  \/ WithdrawalMarkApproved(p)
  \/ WithdrawalAddTxn(p)
  \/ WithdrawalSetStatus(p)
  \/ SweepStart(p)
  \/ SweepQuery(p)
  \/ SweepLoop(p)
  \/ SweepCommit(p)
  \/ \E r \in EventRefs \ {0} : VerifyStart(p, r)
  \/ \E st \in {"success", "failed"}, k \in KoboAmounts, e \in EventEmails :
        VerifyGateway(p, st, k, e)
  \/ VerifyUserQuery(p)
  \/ VerifyCredit(p)
  \/ VerifyAdd(p)
  \/ GatewayFail(p)
  \/ StoreFail(p)

\* requests are handled concurrently
Next == (\E p \in Procs : Step(p)) \/ Tick

Spec == Init /\ [][Next]_vars

\* one request at a time: a handler runs to its response before the next starts
NextSerial == Step(1) \/ Tick

SpecSerial == Init /\ [][NextSerial]_vars

\* ==================================================================== claims
\* no handler is running
Quiescent == \A p \in Procs : Free(p)
\* the Pending-created deposit transactions: those written with a referenceId
DepositRefs == {r \in Refs : TxnQuery(r) # {}}
TerminalTxn == {"Completed", "Failed"}

\* C1: for a deposit Transaction written Pending, delivering the same success
\* event again (same referenceId, same customer, same amount) credits the wallet
\* once in total: no reference has two identical credits.
C1_SameEventCreditsOnce ==
  \A r \in DepositRefs :
    \A i, j \in 1..Len(credits[r]) : i # j => credits[r][i] # credits[r][j]

\* C2: whenever no handler is running, the wallet credit of a deposit
\* Transaction has been applied if and only if that Transaction is Completed.
C2_CreditIffCompleted ==
  Quiescent =>
    \A r \in DepositRefs :
      (credits[r] # <<>>) <=> (\E k \in TxnQuery(r) : transactions[k].status = "Completed")

\* C3: once a Transaction is Completed or Failed, no step changes its status or
\* credits a wallet for its referenceId.
C3_TerminalTxnFrozen ==
  [][\A k \in 1..Len(transactions) :
       (transactions[k].referenceId # 0 /\ transactions[k].status \in TerminalTxn)
         => /\ transactions'[k].status = transactions[k].status
            /\ credits'[transactions[k].referenceId] = credits[transactions[k].referenceId]]_vars

\* the withdrawal approval in slot p has read the balance and now answers
ApprovalAnswers(p) ==
  /\ pc[p] \in {"wdMarkFailed", "wdAddTxn"}
  /\ loc[p].status = "approved" /\ loc[p].was = "pending"
  /\ pc'[p] = "done" /\ loc'[p].res # 500

\* C4: an approval of a pending request that runs to its answer leaves, with
\* balance b read and amount a requested: b and status failed when b < a,
\* b - a and status approved when b >= a.
C4_ApprovalOutcome ==
  [][\A p \in Procs :
       ApprovalAnswers(p) =>
         LET w == loc[p].wid
             u == WithdrawalData[w].userId
             a == WithdrawalData[w].amount
             b == loc[p].balance
         IN  IF b < a
             THEN walletBalance'[u] = b /\ withdrawals'[w] = "failed"
             ELSE walletBalance'[u] = b - a /\ withdrawals'[w] = "approved"]_vars

\* C4 witnesses: an approval answered 400 with the request failed and the balance
\* short of the amount; an approval answered 200 with the balance debited to 0.
C4_Witness ==
  /\ pc[1] = "done" /\ loc[1].kind = "wd" /\ loc[1].res = 400
  /\ withdrawals["w1"] = "failed" /\ withdrawals["w2"] = "approved"
  /\ walletBalance["u1"] = 500000 /\ debits["w1"] = 0

\* C5: approvals of different requests never jointly overdraw: as long as no
\* request has been debited twice, walletBalance is never negative.
C5_NeverOverdrawn ==
  (\A w \in WIds : debits[w] <= 1) => \A u \in Users : walletBalance[u] >= 0

\* C6: once a WithdrawalRequest has left pending, no step changes its status or
\* debits the wallet for it again.
C6_TerminalRequestFrozen ==
  [][\A w \in WIds :
       withdrawals[w] # "pending"
         => withdrawals'[w] = withdrawals[w] /\ debits'[w] = debits[w]]_vars

\* the Withdrawal transactions recorded for request w
WithdrawalTxns(w) ==
  {k \in 1..Len(transactions) :
     /\ transactions[k].type = "Withdrawal"
     /\ transactions[k].userId = WithdrawalData[w].userId
     /\ transactions[k].amount = WithdrawalData[w].amount}

\* C7: whenever no handler is running, a request whose debit has been applied
\* is no longer pending and has its Withdrawal Transaction.
C7_ApprovalAtomic ==
  Quiescent =>
    \A w \in WIds :
      debits[w] > 0 => withdrawals[w] # "pending" /\ WithdrawalTxns(w) # {}

\* the sweep in slot p has begun as an immediate rerun and is still running
RerunRunning(p) == pc[p] # "done" /\ loc[p].kind = "sweep" /\ loc[p].rerun

\* C8: a sweep started right after a successful sweep, with the clock unchanged,
\* completes no investment, credits no wallet and reports zero processed.
C8_RerunProcessesNothing ==
  [][\A p \in Procs :
       RerunRunning(p) =>
         /\ walletBalance' = walletBalance
         /\ investments' = investments
         /\ (pc'[p] = "done" /\ loc'[p].res = 200) => loc'[p].processedCount = 0]_vars

\* C8 witness: the rerun has answered, after a first run that paid i1, with
\* investments still active for it to find.
C8_Witness ==
  /\ pc[1] = "done" /\ loc[1].kind = "sweep" /\ loc[1].rerun /\ loc[1].res = 200
  /\ loc[1].processedCount = 0
  /\ payouts["i1"] = 1 /\ investments["i2"] = "active"

\* C9: no investment is paid out more than once.
C9_PaidAtMostOnce == \A i \in InvSet : payouts[i] <= 1

\* an investment is due at `now`: its project exists and now >= createdAt + durationDays
Due(i, now) ==
  /\ InvestmentData[i].projectId \in ProjectIds
  /\ now >= InvestmentData[i].createdAt
            + ProjectData[InvestmentData[i].projectId].durationDays
\* amount x (1 + returnPercentage / 100)
Owed(i) ==
  (InvestmentData[i].amount
     * (100 + ProjectData[InvestmentData[i].projectId].returnPercentage)) \div 100
\* what the due investments of a snapshot owe to user u
RECURSIVE OwedSum(_, _, _)
OwedSum(snap, now, u) ==
  IF snap = <<>> THEN 0
  ELSE (IF Due(Head(snap), now) /\ InvestmentData[Head(snap)].userId = u
        THEN Owed(Head(snap)) ELSE 0)
       + OwedSum(Tail(snap), now, u)

\* C10: a sweep whose commit succeeds sets every due investment of its snapshot
\* to completed and credits each owner by amount x (1 + returnPercentage/100)
\* for each of them.
C10_PayoutAmount ==
  [][\A p \in Procs :
       (pc[p] = "swCommit" /\ pc'[p] = "done" /\ loc'[p].res = 200) =>
         /\ \A k \in 1..Len(loc[p].snap) :
              Due(loc[p].snap[k], loc[p].now) => investments'[loc[p].snap[k]] = "completed"
         /\ \A u \in Users :
              walletBalance'[u] = walletBalance[u] + OwedSum(loc[p].snap, loc[p].now, u)]_vars

\* C10 witness: amount 10000, 30 days, 10 percent: the sweep has credited 11000
\* to a wallet of 1000 and completed the investment.
C10_Witness ==
  /\ pc[1] = "done" /\ loc[1].kind = "sweep" /\ loc[1].res = 200
  /\ loc[1].processedCount = 1
  /\ investments["i1"] = "completed" /\ payouts["i1"] = 1
  /\ walletBalance["u1"] = 1000000 + 11000000

\* the sweep in slot p holds a snapshot and takes a step
SweepSteps(p) == pc[p] \in {"swLoop", "swCommit"} /\ pc'[p] # pc[p]
\* now < createdAt + durationDays for an investment whose project exists
NotMatured(i, now) ==
  /\ InvestmentData[i].projectId \in ProjectIds
  /\ now < InvestmentData[i].createdAt
            + ProjectData[InvestmentData[i].projectId].durationDays

\* C11: no step of a sweep completes or pays an active investment of its
\* snapshot that has not matured at the sweep's `now`: it stays active and
\* nothing is credited on its account.
C11_UnmaturedUntouched ==
  [][\A p \in Procs :
       SweepSteps(p) =>
         \A k \in 1..Len(loc[p].snap) :
           (investments[loc[p].snap[k]] = "active" /\ NotMatured(loc[p].snap[k], loc[p].now))
             => /\ investments'[loc[p].snap[k]] = "active"
                /\ payouts'[loc[p].snap[k]] = payouts[loc[p].snap[k]]
                /\ (pc[p] = "swLoop" /\ pc'[p] = "swCommit")
                     => loc[p].snap[k] \notin BatchSet(loc'[p].batch)]_vars

\* C11 witness: a sweep at day 30 has paid i1 and answered, and i2, which
\* matures at day 31, is still active and unpaid.
C11_Witness ==
  /\ pc[1] = "done" /\ loc[1].kind = "sweep" /\ loc[1].res = 200 /\ loc[1].now = 30
  /\ investments["i1"] = "completed"
  /\ investments["i2"] = "active" /\ payouts["i2"] = 0

\* the project of investment i cannot be found
MissingProject(i) == InvestmentData[i].projectId \notin ProjectIds
\* the number of due investments in a snapshot
DueCount(snap, now) == Cardinality({k \in 1..Len(snap) : Due(snap[k], now)})

\* C12: an investment of the snapshot whose project is missing is not put in
\* the batch and not counted; when the commit succeeds it is still active and
\* unpaid, while the due investments of the same snapshot are completed.
C12_MissingProjectSkipped ==
  [][\A p \in Procs :
       /\ (pc[p] = "swLoop" /\ pc'[p] = "swCommit") =>
            /\ \A k \in 1..Len(loc[p].snap) :
                 MissingProject(loc[p].snap[k]) => loc[p].snap[k] \notin BatchSet(loc'[p].batch)
            /\ loc'[p].processedCount = DueCount(loc[p].snap, loc[p].now)
       /\ (pc[p] = "swCommit" /\ pc'[p] = "done" /\ loc'[p].res = 200) =>
            \A k \in 1..Len(loc[p].snap) :
              /\ MissingProject(loc[p].snap[k])
                   => /\ investments'[loc[p].snap[k]] = "active"
                      /\ payouts'[loc[p].snap[k]] = payouts[loc[p].snap[k]]
              /\ Due(loc[p].snap[k], loc[p].now)
                   => investments'[loc[p].snap[k]] = "completed"]_vars

\* C12 witness: a sweep at day 31 has completed i1 and i2 and counted two, and
\* i3, whose project is missing, is still active with its owner's wallet at 0.
C12_Witness ==
  /\ pc[1] = "done" /\ loc[1].kind = "sweep" /\ loc[1].res = 200
  /\ loc[1].processedCount = 2
  /\ investments["i1"] = "completed" /\ investments["i2"] = "completed"
  /\ investments["i3"] = "active" /\ payouts["i3"] = 0 /\ walletBalance["u2"] = 0

\* the documents of a snapshot
SnapSet(snap) == {snap[k] : k \in 1..Len(snap)}

\* C13: when a store call of a sweep fails while it processes one investment of
\* its snapshot (a project read in the loop, a write of the batch), every other
\* due investment of the snapshot is still completed and paid by that sweep.
C13_FailureIsolated ==
  [][\A p \in Procs :
       (pc[p] \in {"swLoop", "swCommit"} /\ pc'[p] = "done" /\ loc'[p].res = 500) =>
         \E failed \in SnapSet(loc[p].snap) :
           \A i \in SnapSet(loc[p].snap) \ {failed} :
             Due(i, loc[p].now) => investments'[i] = "completed" /\ payouts'[i] = 1]_vars

\* C14: in the SDK variant, a webhook whose referenceId matches no stored
\* Transaction credits no wallet: a reference without a Transaction has no credit.
C14_UnknownRefNoCredit ==
  variant = "sdk" => \A r \in Refs : TxnQuery(r) = {} => credits[r] = <<>>

\* C15: a success webhook for which no user was resolved, updating a Pending
\* Transaction and answering 200, marks it Failed and changes no wallet.
C15_UnresolvedUserMarksFailed ==
  [][\A p \in Procs :
       ( /\ pc[p] = "whSdkTxnUpdate" /\ pc'[p] = "done" /\ loc'[p].res = 200
         /\ loc[p].newStatus = "Completed" /\ loc[p].userId = "none"
         /\ transactions[loc[p].txn].status = "Pending" )
       => /\ transactions'[loc[p].txn].status = "Failed"
          /\ walletBalance' = walletBalance]_vars

\* the webhook handler in slot p is running
WebhookRunning(p) ==
  pc[p] \in {"whSdkUserQuery", "whSdkCredit", "whSdkTxnQuery", "whSdkTxnUpdate",
             "whRawUserQuery", "whRawCredit", "whRawAdd"}

\* C16: a webhook handler that has accepted its payload answers 200, or 500
\* when a store call fails: an unresolvable user or an unknown reference is
\* answered 200.
C16_PermanentErrorsHandled ==
  [][\A p \in Procs :
       (WebhookRunning(p) /\ pc'[p] = "done") => loc'[p].res \in {200, 500}]_vars

\* a webhook reporting status failed for reference r arrives in slot p
FailureEventFor(p, r) ==
  \E e \in EventEmails, k \in KoboAmounts, ev \in WebhookEvents :
    WebhookSdkStart(p, r, e, k, ev, "failed")
\* the Transaction of reference r is Pending
PendingRef(r) == \E k \in TxnQuery(r) : transactions[k].status = "Pending"

\* C17: a webhook reporting status failed for a reference whose Transaction is
\* Pending changes no walletBalance, and when the handler answers without a
\* failed store call, that Transaction is Failed.
C17_FailureMarksFailed ==
  [][\A p \in Procs :
       /\ \A r \in Refs :
            (FailureEventFor(p, r) /\ PendingRef(r)) =>
              /\ walletBalance' = walletBalance
              /\ pc'[p] = "done" => \A k \in TxnQuery(r) : transactions'[k].status = "Failed"
       /\ ( /\ pc[p] \in {"whSdkTxnQuery", "whSdkTxnUpdate"} /\ pc'[p] # pc[p]
            /\ loc[p].newStatus = "Failed" /\ PendingRef(loc[p].ref) ) =>
              /\ walletBalance' = walletBalance
              /\ (pc'[p] = "done" /\ loc'[p].res # 500) =>
                   \A k \in TxnQuery(loc[p].ref) : transactions'[k].status = "Failed"]_vars

\* C18: a webhook handler whose event carries no referenceId makes no store
\* call: none is ever waiting on the store.
C18_NoReferenceNoStoreAccess ==
  \A p \in Procs : WebhookRunning(p) => loc[p].ref # 0

\* C19: a deposit initiation answered 200 has stored one Pending Transaction
\* under a referenceId of its own, with the e-mail and exactly the amount of
\* the request.
C19_InitWritesPending ==
  [][\A p \in Procs :
       ( /\ pc[p] \in {"initSdkGateway", "initSdkAdd", "initRawGateway"}
         /\ pc'[p] = "done" /\ loc'[p].res = 200 ) =>
         \E k \in 1..Len(transactions') :
           /\ transactions'[k].status = "Pending"
           /\ transactions'[k].referenceId # 0
           /\ transactions'[k].email = loc[p].email
           /\ transactions'[k].amount = loc[p].amount
           /\ \A j \in 1..Len(transactions') :
                transactions'[j].referenceId = transactions'[k].referenceId => j = k]_vars

\* C20: when the gateway call of an SDK deposit initiation fails, the handler
\* answers an error, the stored Transactions are the same after as before, and
\* none carries the referenceId of the failed call.
C20_GatewayFailureWritesNothing ==
  [][\A p \in Procs :
       (pc[p] = "initSdkGateway" /\ pc'[p] = "done") =>
         /\ loc'[p].res = 500
         /\ transactions' = transactions
         /\ TxnQuery(loc[p].ref) = {}]_vars

\* C20 witness: the first request was a deposit initiation whose gateway call
\* failed (the gateway holds no charge for it): answered 500, nothing stored.
C20_Witness ==
  /\ pc[1] = "done" /\ loc[1].kind = "initSdk" /\ loc[1].res = 500
  /\ reqs = 1 /\ gateway[1] = 0 /\ transactions = <<>>

\* the Completed Deposit transactions recorded for reference r by verify
VerifiedTxns(r) ==
  {k \in 1..Len(transactions) :
     /\ transactions[k].type = "Deposit" /\ transactions[k].status = "Completed"
     /\ transactions[k].detailsRef = r}

\* C21: however often a reference is verified, once its Completed Deposit
\* Transaction is recorded the wallet has been credited at most once for it and
\* no second such Transaction is recorded.
C21_VerifyCreditsOnce ==
  variant = "index" =>
    \A r \in Refs :
      VerifiedTxns(r) # {} => Len(credits[r]) <= 1 /\ Cardinality(VerifiedTxns(r)) <= 1

\* the withdrawal update in slot p is running
WithdrawalRunning(p) ==
  pc[p] \in {"wdGet", "wdUserGet", "wdMarkFailed", "wdDebit", "wdMarkApproved",
             "wdAddTxn", "wdSetStatus"}

\* C22: no step of an update with a status other than approved changes a
\* walletBalance or the Transactions, and when the update is answered 200 the
\* request carries the status of the update.
C22_RejectTouchesNoWallet ==
  [][\A p \in Procs :
       (WithdrawalRunning(p) /\ loc[p].status # "approved" /\ pc'[p] # pc[p]) =>
         /\ walletBalance' = walletBalance
         /\ transactions' = transactions
         /\ debits' = debits
         /\ (pc'[p] = "done" /\ loc'[p].res = 200) =>
              withdrawals' = [withdrawals EXCEPT ![loc[p].wid] = loc[p].status]
         /\ (pc'[p] = "done" /\ loc'[p].res # 200) => withdrawals' = withdrawals]_vars

\* C22 witness: the update {id: w1, status: rejected} was answered 200, w1 is
\* rejected, and no wallet, debit or Transaction has changed.
C22_Witness ==
  /\ pc[1] = "done" /\ loc[1].kind = "wd" /\ loc[1].res = 200
  /\ withdrawals["w1"] = "rejected"
  /\ walletBalance = [u \in Users |-> IF u = "u1" THEN 1000000 ELSE 0]
  /\ transactions = <<>> /\ debits = [w \in WIds |-> 0]

\* the SDK webhook in slot p reports success with 100 x the amount of the
\* Pending Transaction it has found, and answers 200
SuccessForInitiated(p) ==
  /\ pc[p] = "whSdkTxnUpdate" /\ pc'[p] = "done" /\ loc'[p].res = 200
  /\ loc[p].newStatus = "Completed"
  /\ transactions[loc[p].txn].status = "Pending"
  /\ loc[p].amount = transactions[loc[p].txn].amount

\* C23: a deposit initiated for amount A, followed by a success webhook for its
\* referenceId reporting 100 x A, leaves the Transaction Completed and the
\* depositor's wallet credited for that reference exactly once, by exactly A.
C23_DepositScenario ==
  [][\A p \in Procs :
       SuccessForInitiated(p) =>
         /\ transactions'[loc[p].txn].status = "Completed"
         /\ credits'[loc[p].ref] =
              << [userId |-> transactions[loc[p].txn].email,
                  amount |-> transactions[loc[p].txn].amount] >>]_vars

\* C24: every credit applied for the reference of a stored Transaction has the
\* amount stored on that Transaction, whatever the event reported.
C24_CreditIsStoredAmount ==
  variant = "sdk" =>
    \A r \in DepositRefs :
      \A i \in 1..Len(credits[r]) :
        credits[r][i].amount = transactions[FirstDoc(TxnQuery(r))].amount

\* the investments a step moves from active to completed
NewlyCompleted == {i \in InvSet : investments[i] = "active" /\ investments'[i] = "completed"}
\* the payouts owed to user u for the investments of S
RECURSIVE OwedTo(_, _)
OwedTo(S, u) ==
  IF S = {} THEN 0
  ELSE LET i == CHOOSE x \in S : TRUE
       IN  (IF InvestmentData[i].userId = u THEN Owed(i) ELSE 0) + OwedTo(S \ {i}, u)

\* C25: every step of a sweep changes the wallets by exactly the payouts of the
\* investments that step moves to completed, and completes nothing else: a
\* failed commit changes neither, a successful one changes both together.
C25_CommitAtomic ==
  [][\A p \in Procs :
       (pc[p] \in {"swQuery", "swLoop", "swCommit"} /\ pc'[p] # pc[p]) =>
         /\ \A u \in Users :
              walletBalance'[u] = walletBalance[u] + OwedTo(NewlyCompleted, u)
         /\ \A i \in InvSet :
              /\ investments'[i] # investments[i] => i \in NewlyCompleted
              /\ payouts'[i] = payouts[i] + (IF i \in NewlyCompleted THEN 1 ELSE 0)
         /\ (pc'[p] = "done" /\ loc'[p].res = 500) => NewlyCompleted = {}]_vars

\* C25 witness: a sweep that had one investment in its batch was answered 500
\* at the commit: i1 is still active and unpaid, the wallet is untouched.
C25_Witness ==
  /\ pc[1] = "done" /\ loc[1].kind = "sweep" /\ loc[1].res = 500
  /\ loc[1].processedCount = 1
  /\ investments["i1"] = "active" /\ payouts["i1"] = 0
  /\ walletBalance["u1"] = 1000000

\* C26: a sweep whose commit succeeds reports as processed the number of
\* investments it moved from active to completed, and each wallet grows by the
\* sum of the payouts of its owner's investments among them.
C26_CountAndSum ==
  [][\A p \in Procs :
       (pc[p] = "swCommit" /\ pc'[p] = "done" /\ loc'[p].res = 200) =>
         /\ loc'[p].processedCount = Cardinality(NewlyCompleted)
         /\ \A u \in Users :
              walletBalance'[u] - walletBalance[u] = OwedTo(NewlyCompleted, u)]_vars

\* C26 witness: a sweep at day 31 reported two processed; u1, who owns both i1
\* (payout 11000) and i2 (payout 250), has 1000 + 11000 + 250.
C26_Witness ==
  /\ pc[1] = "done" /\ loc[1].kind = "sweep" /\ loc[1].res = 200
  /\ loc[1].processedCount = 2
  /\ payouts["i1"] = 1 /\ payouts["i2"] = 1
  /\ walletBalance["u1"] = 1000000 + 11000000 + 250000

\* the withdrawal update arriving in slot p is refused at once (missing id or status)
WithdrawalRefused(p) ==
  /\ Free(p) /\ reqs' # reqs
  /\ pc'[p] = "done" /\ loc'[p].kind = "wd"
\* the withdrawal update in slot p answers not found (unknown request, missing user)
WithdrawalNotFound(p) ==
  /\ WithdrawalRunning(p) /\ pc'[p] = "done" /\ loc'[p].res = 404

\* C27: a withdrawal update refused for a missing id or status is answered 400
\* with nothing changed; one answered not found has only read, up to and
\* including that answer: request statuses, wallets and Transactions are as
\* before the call.
C27_RefusedUpdateChangesNothing ==
  [][\A p \in Procs :
       /\ WithdrawalRefused(p) =>
            loc'[p].res = 400 /\ UNCHANGED <<withdrawals, walletBalance, transactions, debits>>
       /\ WithdrawalNotFound(p) => pc[p] \in {"wdGet", "wdUserGet"}
       /\ (pc[p] \in {"wdGet", "wdUserGet"} /\ pc'[p] # pc[p]) =>
            UNCHANGED <<withdrawals, walletBalance, transactions, debits>>]_vars

\* C27 witness: a withdrawal update, the only request so far, was answered 404
\* (unknown request id, or approval for a user that does not exist), and the
\* store is as it was at the start.
C27_Witness ==
  /\ pc[1] = "done" /\ loc[1].kind = "wd" /\ loc[1].res = 404 /\ reqs = 1
  /\ withdrawals = [w \in WIds |-> "pending"]
  /\ walletBalance = [u \in Users |-> IF u = "u1" THEN 1000000 ELSE 0]
  /\ transactions = <<>>

====
